---------------------------- MODULE Spec2Model ----------------------------
(***************************************************************************)
(* The PRNG state-recovery experiments of z3_for_webapp_security.md:       *)
(* break_rand / enumerate_solutions on the MSVC rand() recurrence, and     *)
(* make_constraints_next / find_seed on java.util.Random.                  *)
(*                                                                         *)
(* A solver session is its list of assertions.  check() is modelled by     *)
(* what it decides: the set of assignments that satisfy every assertion.   *)
(* model() returns one of them; which one is the backend's choice.         *)
(*                                                                         *)
(* TLC's integers are 32-bit signed, so a 32-bit state is kept as the pair *)
(* <<high half, low half>> of 16-bit halves and every product is arranged  *)
(* to stay below 2^31.                                                     *)
(***************************************************************************)
EXTENDS Integers, Sequences, FiniteSets

VARIABLES
  pc,             \* position of the notebook cell being run
  query,          \* the observations of the current call (nums)
  blocked,        \* blocking clauses added to the solver so far, in order
  verdict,        \* answer of the last check()
  model,          \* model of the last check(), NoModel when there is none
  out,            \* the lines the cell has printed
  counter,        \* enumerate_solutions: counter
  solution_list   \* enumerate_solutions: solution_list

vars == <<pc, query, blocked, verdict, model, out, counter, solution_list>>

(***************************************************************************)
(* Bounds of the exploration.                                              *)
(***************************************************************************)
\* The backend may answer with any of the Fanout least models of a query
\* that is not blocked yet, or with the least model that is left.
Fanout == 3

\* The generic transition model is explored on bit-vectors of up to MaxWidth
\* bits and up to MaxSteps transitions.
MaxWidth == 3
MaxSteps == 2

(***************************************************************************)
(* MSVC rand(): state_i == state_{i-1} * 214013 + 2531011 on 32 bits,      *)
(* output URem((state >> 16) & 0x7FFF, 100).                               *)
(***************************************************************************)
Multiplier == 214013
Increment == 2531011
Half == 65536
OutMask == 32767
OutRange == 100

\* state * 214013 + 2531011 (mod 2^32) on a state <<h, l>> = h * 2^16 + l.
\* With 214013 = mh * 2^16 + ml the product is
\*   mh*h*2^32 + (ml*h + mh*l)*2^16 + ml*l,   and mh*h*2^32 wraps to 0.
RandBug(s) ==
  LET ml == Multiplier % Half
      t == ml * s[2] + Increment
  IN <<(ml * s[1] + (t \div Half)) % Half, t % Half>>

\* The same transition with the even multiplier 214012.
RandEven(s) ==
  LET ml == (Multiplier - 1) % Half
      mh == (Multiplier - 1) \div Half
      t == ml * s[2] + Increment
  IN <<(ml * s[1] + mh * s[2] + (t \div Half)) % Half, t % Half>>

Rand(s) ==
  LET ml == Multiplier % Half
      mh == Multiplier \div Half
      t == ml * s[2] + Increment
  IN <<(ml * s[1] + mh * s[2] + (t \div Half)) % Half, t % Half>>

\* URem((state >> 16) & 0x7FFF, 100)
OutputUnmasked(s) == s[1] % OutRange

Output(s) == (s[1] % (OutMask + 1)) % OutRange


(***************************************************************************)
(* break_rand: the assertions of the solver, as predicates of an           *)
(* assignment m = [states |-> <<state_1 .. state_{n+1}>>, output_next].    *)
(***************************************************************************)
NoModel == [states |-> <<>>, output_next |-> -1]

\* s.add(states[i] == states[i - 1] * 214013 + 2531011), i in 2 .. n+1
Recurrence(m) ==
  \A i \in 2..Len(m.states) : m.states[i] = Rand(m.states[i - 1])

\* s.add(URem((states[i] >> 16) & 0x7FFF, 100) == nums[i - 1]), i in 1 .. n
Observed(m, nums) ==
  \A i \in 1..Len(nums) : Output(m.states[i]) = nums[i]

\* s.add(output_next == URem((states[n + 1] >> 16) & 0x7FFF, 100))
NextDefinedLast(m) == m.output_next = Output(m.states[Len(m.states) - 1])

NextDefined(m) == m.output_next = Output(m.states[Len(m.states)])

\* z.Or(states[i] != s.model()[states[i]] for every state_i): the clause
\* enumerate_solutions adds for the model b it has just found.
BlockingSame(m, b) ==
  \E i \in 1..Len(m.states) : m.states[i] = b.states[i]

BlockingByOutput(m, b) == m.output_next # b.output_next

\* The same clause on bits 0..15 of every state.
BlockingLow(m, b) ==
  \E i \in 1..Len(m.states) : m.states[i][2] # b.states[i][2]

Blocking(m, b) ==
  \E i \in 1..Len(m.states) : m.states[i] # b.states[i]

SatisfiesLastOnly(m, nums, bl) ==
  /\ Len(m.states) = Len(nums) + 1
  /\ Recurrence(m)
  /\ Observed(m, nums)
  /\ NextDefined(m)
  /\ Len(bl) > 0 => Blocking(m, bl[Len(bl)])

Satisfies(m, nums, bl) ==
  /\ Len(m.states) = Len(nums) + 1
  /\ Recurrence(m)
  /\ Observed(m, nums)
  /\ NextDefined(m)
  /\ \A k \in 1..Len(bl) : Blocking(m, bl[k])

(***************************************************************************)
(* The decision procedure.  The recurrence fixes state_2 .. state_{n+1}    *)
(* and output_next once state_1 is chosen, so a model is the chain of its  *)
(* state_1 and the search is over state_1 = <<h, l>>:                      *)
(*  - 100 divides by 4, so an output fixes bits 16 and 17 of its state,    *)
(*    and bits 0..17 of every state depend on bits 0..17 of state_1        *)
(*    alone: l is kept when the outputs agree with nums modulo 4;          *)
(*  - h ranges over the values whose output is nums[1].                    *)
(* Every candidate kept is then tested against all the assertions.         *)
(***************************************************************************)
RECURSIVE Chain(_, _)
Chain(s, n) == IF n = 0 THEN <<>> ELSE <<s>> \o Chain(Rand(s), n - 1)

\* output_next is the value its defining assertion leaves to it.
ModelOf(s1, n) ==
  LET st == Chain(s1, n + 1)
      Given(o) == [states |-> st, output_next |-> o]
  IN Given(CHOOSE o \in 0..(OutRange - 1) : NextDefined(Given(o)))

RECURSIVE Matches(_, _, _, _)
Matches(s, nums, i, modulus) ==
  \/ i > Len(nums)
  \/ /\ Output(s) % modulus = nums[i] % modulus
     /\ Matches(Rand(s), nums, i + 1, modulus)

LowCandidates(nums) ==
  {l \in 0..(Half - 1) : Matches(<<nums[1] % 4, l>>, nums, 1, 4)}

HighCandidates(v) == {h \in 0..(Half - 1) : Output(<<h, 0>>) = v}

\* The state_1 values of the models of break_rand(nums), nums not empty.
Search(nums) ==
  {s \in HighCandidates(nums[1]) \X LowCandidates(nums) :
     Matches(s, nums, 1, OutRange)}

\* Adding observations to a query only adds assertions.
Refine(S, nums) == {s \in S : Matches(s, nums, 1, OutRange)}

IsPrefix(p, q) == Len(p) <= Len(q) /\ SubSeq(q, 1, Len(p)) = p

(***************************************************************************)
(* The sequences the notebook queries.                                     *)
(***************************************************************************)
random_nums == <<4, 54, 63, 79, 13, 55, 76, 11, 14, 45>>
Prefix(k) == SubSeq(random_nums, 1, k)
Zeros(k) == [i \in 1..k |-> 0]

\* The searches the notebook's queries share.  TLC keeps a filtered set
\* unevaluated; taking its cardinality enumerates it once and for all.
Solved3 == Search(Prefix(3))
Solved4 == {s : s \in Search(Prefix(4))}
SolvedZeros4 == {s : s \in Search(Zeros(4))}
Once(S) == IF Cardinality(S) >= 0 THEN S ELSE {}

StateOnes(nums) ==
  IF IsPrefix(Prefix(4), nums) THEN Refine(Once(Solved4), nums)
  ELSE IF IsPrefix(Zeros(4), nums) THEN Refine(Once(SolvedZeros4), nums)
  ELSE IF nums = Prefix(3) THEN Once(Solved3)
  ELSE Search(nums)

\* All models of the assertions break_rand(nums) makes.
ModelsOn(nums) == {ModelOf(s, Len(nums)) : s \in StateOnes(nums)}
Models4 == ModelsOn(Prefix(4))
ModelsZeros4 == ModelsOn(Zeros(4))
Models5 == ModelsOn(Prefix(5))
ModelsZeros5 == ModelsOn(Zeros(5))
Models9 == ModelsOn(Prefix(9))

Models(nums) ==
  IF nums = Prefix(4) THEN Once(Models4)
  ELSE IF nums = Zeros(4) THEN Once(ModelsZeros4)
  ELSE IF nums = Prefix(5) THEN Models5
  ELSE IF nums = Zeros(5) THEN ModelsZeros5
  ELSE IF nums = Prefix(9) THEN Models9
  ELSE ModelsOn(nums)

\* The models left once the clauses bl are asserted as well.
Remaining(nums, bl) == {m \in Models(nums) : Satisfies(m, nums, bl)}

(***************************************************************************)
(* The backend.  check() answers sat exactly when a model is left, and     *)
(* model() is then one of them.  A backend that runs under a resource      *)
(* bound may also answer unknown.                                          *)
(***************************************************************************)
Before(a, b) == a[1] < b[1] \/ (a[1] = b[1] /\ a[2] < b[2])

Least(S) ==
  CHOOSE m \in S : \A o \in S : ~Before(o.states[1], m.states[1])

RECURSIVE FirstOf(_, _)
FirstOf(S, k) ==
  IF k = 0 \/ S = {} THEN {}
  ELSE UNION {{m} \cup FirstOf(S \ {m}, k - 1) : m \in {Least(S)}}

Choices(all, rem) ==
  IF rem = {} THEN {} ELSE (FirstOf(all, Fanout) \cap rem) \cup {Least(rem)}

Check(nums, bl, bounded) ==
  UNION {IF rem = {}
         THEN {[verdict |-> "unsat", model |-> NoModel]}
         ELSE {[verdict |-> "sat", model |-> m] : m \in Choices(Models(nums), rem)} :
           rem \in {{m : m \in Remaining(nums, bl)}}}
     \cup (IF bounded THEN {[verdict |-> "unknown", model |-> NoModel]} ELSE {})

(***************************************************************************)
(* What a cell prints: out is the list of the lines printed so far, each   *)
(* line its text and the values formatted into it.                         *)
(***************************************************************************)
Line(text, n, list, set) ==
  [text |-> text, n |-> n, list |-> list, set |-> set]
Range(f) == {f[i] : i \in DOMAIN f}

(***************************************************************************)
(* break_rand(nums, next_num): a new solver with the assertions of nums,   *)
(* one check(), and the line it prints.                                    *)
(***************************************************************************)
Reported(r, next_num) ==
  IF r.verdict = "sat"
  THEN Line("problem is satisfiable, expecting and got",
            r.model.output_next, <<next_num>>, {})
  ELSE Line("problem is unsatisfiable", 0, <<>>, {})

BreakRand(nums, next_num, bounded) ==
  \E r \in Check(nums, <<>>, bounded) :
    /\ query' = nums
    /\ blocked' = <<>>
    /\ verdict' = r.verdict
    /\ model' = r.model
    /\ out' = Append(out, Reported(r, next_num))

(***************************************************************************)
(* for i in range(3, 10): break_rand(random_nums[:i], random_nums[i])      *)
(***************************************************************************)
Window(bounded) ==
  /\ pc \in {"idle", "window"}
  /\ LET i == IF pc = "idle" THEN 3 ELSE Len(query) + 1
     IN /\ BreakRand(Prefix(i), random_nums[i + 1], bounded)
        /\ pc' = IF i + 1 < Len(random_nums) THEN "window" ELSE "done"
  /\ UNCHANGED <<counter, solution_list>>

(***************************************************************************)
(* enumerate_solutions(nums, next_num, print_solutions = True)             *)
(***************************************************************************)
Enumerated ==
  {<<Prefix(5), random_nums[6]>>, <<Prefix(9), random_nums[10]>>,
   <<Prefix(4), random_nums[5]>>, <<Zeros(4), 0>>, <<Zeros(5), 0>>}

Start(bounded) ==
  /\ pc = "idle"
  /\ \E call \in Enumerated : BreakRand(call[1], call[2], bounded)
  /\ counter' = 0
  /\ solution_list' = <<>>
  /\ pc' = "loop"

\* A pass that adds no clause to the solver.
IterateUnblocked(bounded) ==
  /\ pc = "loop"
  /\ \E r \in Check(query, blocked, bounded) :
       /\ r.verdict = "sat"
       /\ verdict' = r.verdict
       /\ model' = r.model
       /\ counter' = counter + 1
       /\ solution_list' = Append(solution_list, r.model.output_next)
       /\ out' = Append(out, Line("Solution #", counter + 1, <<>>, {}))
  /\ UNCHANGED <<pc, query, blocked>>

\* One pass of `while s.check() == z.sat`.
Iterate(bounded) ==
  /\ pc = "loop"
  /\ \E r \in Check(query, blocked, bounded) :
       /\ r.verdict = "sat"
       /\ verdict' = r.verdict
       /\ model' = r.model
       /\ counter' = counter + 1
       /\ solution_list' = Append(solution_list, r.model.output_next)
       /\ out' = Append(out, Line("Solution #", counter + 1, <<>>, {}))
       /\ blocked' = Append(blocked, r.model)
  /\ UNCHANGED <<pc, query>>

ExitAnyway(bounded) ==
  /\ pc = "loop"
  /\ \E r \in Check(query, blocked, bounded) :
       /\ verdict' = r.verdict
       /\ model' = r.model
  /\ out' = Append(out, Line("Found a total of", counter, solution_list,
                             Range(solution_list)))
  /\ pc' = "done"
  /\ UNCHANGED <<query, blocked, counter, solution_list>>

\* The loop condition fails; the total, the list and its set are printed.
Exit(bounded) ==
  /\ pc = "loop"
  /\ \E r \in Check(query, blocked, bounded) :
       /\ r.verdict # "sat"
       /\ verdict' = r.verdict
       /\ model' = r.model
  /\ out' = Append(out, Line("Found a total of", counter, solution_list,
                             Range(solution_list)))
  /\ pc' = "done"
  /\ UNCHANGED <<query, blocked, counter, solution_list>>

\* The cell is over, at its end or by a failed assert; the next one builds
\* its own solver.
Return ==
  /\ pc \in {"done", "failed"}
  /\ pc' = "idle"
  /\ query' = <<>>
  /\ blocked' = <<>>
  /\ verdict' = "none"
  /\ model' = NoModel
  /\ out' = <<>>
  /\ counter' = 0
  /\ solution_list' = <<>>

Init ==
  /\ pc = "idle"
  /\ query = <<>>
  /\ blocked = <<>>
  /\ verdict = "none"
  /\ model = NoModel
  /\ out = <<>>
  /\ counter = 0
  /\ solution_list = <<>>

\* The enumeration cells, the backend deciding every query (the notebook:
\* "we're only going to get sat/unsat").
Next ==
  \/ Start(FALSE)
  \/ Iterate(FALSE)
  \/ Exit(FALSE)
  \/ Return

Spec == Init /\ [][Next]_vars

\* The moving-window cell.
NextWindow ==
  \/ Window(FALSE)
  \/ Return

SpecWindow == Init /\ [][NextWindow]_vars

\* The same cells on a backend that may give up.
NextUnknown ==
  \/ Start(TRUE)
  \/ Iterate(TRUE)
  \/ Exit(TRUE)
  \/ Return

SpecUnknown == Init /\ [][NextUnknown]_vars

(***************************************************************************)
(* Properties of the enumeration cells (Spec).                             *)
(***************************************************************************)
StatesOf(bl) == {bl[i].states : i \in 1..Len(bl)}
Last(f) == f[Len(f)]

\* C1: the solution recorded at a pass of the enumeration differs from every
\* solution recorded at an earlier pass in at least one state variable, so
\* no assignment of the states is recorded twice.
C1_NoSolutionTwice ==
  \A i, j \in 1..Len(blocked) :
    i < j => \E v \in 1..Len(blocked[j].states) :
               blocked[j].states[v] # blocked[i].states[v]

C1_Witness ==
  /\ pc = "loop"
  /\ Len(blocked) >= 3
  /\ counter = Len(blocked)

\* C6: five consecutive zeros are reported unsatisfiable and the enumeration
\* finds no solution; four consecutive zeros are reported satisfiable and
\* the enumeration finds exactly 38 distinct solutions.
C6_Zeros ==
  /\ (query = Zeros(5) /\ pc \in {"loop", "done"})
       => (out[1].text = "problem is unsatisfiable" /\ counter = 0)
  /\ (query = Zeros(5) /\ pc = "done")
       => Last(out) = Line("Found a total of", 0, <<>>, {})
  /\ (query = Zeros(4) /\ pc \in {"loop", "done"})
       => out[1].text = "problem is satisfiable, expecting and got"
  /\ (query = Zeros(4) /\ pc = "done")
       => /\ counter = 38
          /\ Last(out).n = 38
          /\ Cardinality(StatesOf(blocked)) = 38

C6_Witness ==
  /\ query = Zeros(4)
  /\ pc = "done"
  /\ verdict = "unsat"
  /\ counter = 38

\* C8: the query on the first five observed numbers has exactly two
\* solutions that differ in the internal states, and both predict 55, the
\* number that follows.
C8_FiveObserved ==
  (query = Prefix(5) /\ pc = "done")
    => /\ counter = 2
       /\ Cardinality(StatesOf(blocked)) = 2
       /\ solution_list = <<55, 55>>
       /\ random_nums[6] = 55

C8_Witness ==
  /\ query = Prefix(5)
  /\ pc = "done"
  /\ Len(solution_list) = 2

\* C9: solutions are counted by the whole tuple of states and the set of the
\* predicted outputs is reported apart, so the distinct predictions are never
\* more than the solutions counted and two solutions may share a prediction;
\* on the first four observed numbers there are 40 solutions and 20 distinct
\* predictions.
C9_CountAndSet ==
  /\ Cardinality(Range(solution_list)) <= counter
  /\ counter = Cardinality(StatesOf(blocked))
  /\ (query = Prefix(4) /\ pc = "done")
       => /\ Last(out).n = 40
          /\ Len(Last(out).list) = 40
          /\ Cardinality(Last(out).set) = 20

C9_Witness ==
  /\ query = Prefix(4)
  /\ pc = "done"
  /\ \E i, j \in 1..Len(blocked) :
       /\ blocked[i].states # blocked[j].states
       /\ solution_list[i] = solution_list[j]

(***************************************************************************)
(* Properties of the moving-window cell (SpecWindow).                      *)
(***************************************************************************)
\* C7: a prediction on k consecutive observations uses k + 1 states, the
\* outputs of states 1..k are the observations and the value returned is the
\* output of state k + 1; on every prefix of random_nums the query is
\* satisfiable, and from k = 5 on the value returned is the number that
\* follows whichever model the backend returns (for k = 3 and k = 4 it may
\* be another number).
C7_Window ==
  (pc \in {"window", "done"}) =>
    /\ verdict = "sat"
    /\ Len(model.states) = Len(query) + 1
    /\ \A i \in 1..Len(query) : Output(model.states[i]) = query[i]
    /\ Last(out).n = Output(model.states[Len(query) + 1])
    /\ \A i \in 1..Len(out) :
         /\ out[i].text = "problem is satisfiable, expecting and got"
         /\ out[i].list = <<random_nums[i + 3]>>
         /\ i + 2 >= 5 => out[i].n = random_nums[i + 3]
    /\ Len(query) >= 5 =>
         \A m \in Models(query) : m.output_next = random_nums[Len(query) + 1]

\* The cell has run to its end; the predictions on three and on four numbers
\* were wrong and the later ones right.
C7_Witness ==
  /\ pc = "done"
  /\ Len(out) = 7
  /\ out[1].n # random_nums[4]
  /\ out[2].n # random_nums[5]
  /\ out[3].n = random_nums[6]
  /\ out[7].n = random_nums[10]

(***************************************************************************)
(* Properties of the cells on a backend that may give up (SpecUnknown).    *)
(***************************************************************************)
\* C3: when check() answers unknown the outcome is not reported as
\* unsatisfiable: break_rand prints "unsatisfiable", and the enumeration
\* prints its total as the final count, only when check() answered unsat.
C3_UnknownDistinct ==
  (verdict = "unknown")
    => Last(out).text \notin {"problem is unsatisfiable", "Found a total of"}

(***************************************************************************)
(* java.util.Random.  A 48-bit seed is kept as its four 12-bit limbs,      *)
(* least significant first; the 64-bit original_seed has a fifth entry,    *)
(* its bits 48..63.  A 32-bit output is the pair <<high half, low half>>   *)
(* of its bit pattern.                                                     *)
(***************************************************************************)
Limb == 4096
\* slope = 0x5DEECE66D = 0x5DE * 2^24 + 0xECE * 2^12 + 0x66D
Slope == <<1645, 3790, 1502, 0>>
Intercept == 11

\* (seed * multiplier + addend) & mask, mask = 2^48 - 1
Affine(a, m, c) ==
  LET c0 == a[1] * m[1] + c
      c1 == a[2] * m[1] + a[1] * m[2] + (c0 \div Limb)
      c2 == a[3] * m[1] + a[2] * m[2] + a[1] * m[3] + (c1 \div Limb)
      c3 == a[4] * m[1] + a[3] * m[2] + a[2] * m[3] + a[1] * m[4]
              + (c2 \div Limb)
  IN <<c0 % Limb, c1 % Limb, c2 % Limb, c3 % Limb>>

StepSeed(seed) == Affine(seed, Slope, Intercept)

RECURSIVE Pow2(_)
Pow2(n) == IF n = 0 THEN 1 ELSE 2 * Pow2(n - 1)

\* Bits from .. from + 15 of a 48-bit seed; the bits above bit 47 are 0.
Chunk(seed, from) ==
  LET q == from \div 12
      r == from % 12
      L(i) == IF i + 1 <= 4 THEN seed[i + 1] ELSE 0
  IN ((L(q) \div Pow2(r)) + L(q + 1) * Pow2(12 - r)
      + (IF r > 8 THEN (L(q + 2) % Pow2(r - 8)) * Pow2(24 - r) ELSE 0))
     % Half

\* Extract(31, 0, LShR(seed, 48 - gen_bits))
NextOutputUnshifted(seed, gen_bits) == <<Chunk(seed, 16), Chunk(seed, 0)>>

NextOutput(seed, gen_bits) ==
  <<Chunk(seed, 48 - gen_bits + 16), Chunk(seed, 48 - gen_bits)>>

\* The 32-bit pattern a Python int is given when it is compared with a
\* 32-bit vector, and the int that bs.BitArray(uint=..., length=32).int
\* reads from a pattern.
BitsOf(v) == <<(v \div Half) % Half, v % Half>>
ToSignedMasked(b) == (b[1] % (Half \div 2)) * Half + b[2]
ToSigned(b) == (IF b[1] >= Half \div 2 THEN b[1] - Half ELSE b[1]) * Half + b[2]

RECURSIVE BitOr(_, _)
BitOr(a, b) ==
  IF a = 0 THEN b
  ELSE IF b = 0 THEN a
  ELSE (IF a % 2 = 1 \/ b % 2 = 1 THEN 1 ELSE 0) + 2 * BitOr(a \div 2, b \div 2)

RECURSIVE Xor(_, _)
Xor(a, b) ==
  IF a = 0 THEN b
  ELSE IF b = 0 THEN a
  ELSE ((a + b) % 2) + 2 * Xor(a \div 2, b \div 2)

\* (original_seed ^ multiplier) & mask
Scramble(original_seed) ==
  [i \in 1..4 |-> Xor(original_seed[i], Slope[i])]

known_ints ==
  <<-1460590454, 747279288, -1334692577, -539670452, -501340078, -143413999>>

(***************************************************************************)
(* find_seed(sequence_length): seed_0 .. seed_n, next_output_1 ..          *)
(* next_output_n and original_seed, as predicates of an assignment         *)
(* m = [original_seed, seeds |-> <<seed_0 .. seed_n>>, next_outputs].      *)
(* An observation <<i, v>> is solver.add(next_output_i == v).              *)
(***************************************************************************)
GenBits == 32

\* s.add(seeds['seed_0'] == (original_seed ^ multiplier) & mask)
SeedBound(m) == m.seeds[1] = Scramble(m.original_seed)

\* seed_i == (seed_{i-1} * multiplier + addend) & mask
SeedRecurrence(m) ==
  \A i \in 2..Len(m.seeds) : m.seeds[i] = StepSeed(m.seeds[i - 1])

\* next_output_i == Extract(31, 0, LShR(seed_i, 48 - gen_bits))
OutputsDefinedFromZero(m) ==
  /\ Len(m.next_outputs) = Len(m.seeds) - 1
  /\ \A i \in 1..Len(m.next_outputs) :
       m.next_outputs[i] = NextOutput(m.seeds[i], GenBits)

OutputsDefined(m) ==
  /\ Len(m.next_outputs) = Len(m.seeds) - 1
  /\ \A i \in 1..Len(m.next_outputs) :
       m.next_outputs[i] = NextOutput(m.seeds[i + 1], GenBits)

OutputsObservedFirst(m, obs) ==
  obs = <<>> \/ m.next_outputs[obs[1][1]] = BitsOf(obs[1][2])

OutputsObserved(m, obs) ==
  \A k \in 1..Len(obs) : m.next_outputs[obs[k][1]] = BitsOf(obs[k][2])

\* solver.add(solver.model()[original_seed] != original_seed)
SeedBlockingLow(m, b) ==
  SubSeq(m.original_seed, 1, 4) # SubSeq(b.original_seed, 1, 4)

\* The clause of enumerate_solutions on the seeds, original_seed left out.
SeedBlockingStates(m, b) ==
  \E i \in 1..Len(m.seeds) : m.seeds[i] # b.seeds[i]

SeedBlocking(m, b) == m.original_seed # b.original_seed

SeedSatisfies(m, n, obs, bl) ==
  /\ Len(m.seeds) = n + 1
  /\ SeedBound(m)
  /\ SeedRecurrence(m)
  /\ OutputsDefined(m)
  /\ OutputsObserved(m, obs)
  /\ \A k \in 1..Len(bl) : SeedBlocking(m, bl[k])

(***************************************************************************)
(* The decision procedure.  With gen_bits = 32 an observed output is bits  *)
(* 16..47 of its seed, so only the low 16 bits of that seed are searched;  *)
(* bits 0..23 of a seed depend on bits 0..23 of the one before alone, so a *)
(* candidate is first tried on its two low limbs.  Multiplying by an odd   *)
(* number is a bijection modulo 2^48, so seed_0 follows by stepping back,  *)
(* and the low 48 bits of original_seed by undoing the exclusive or.  The  *)
(* assignment built is then tested against all the assertions.             *)
(***************************************************************************)
\* 0x5DEECE66D * 0xDFE05BCB1365 = 1 (mod 2^48)
SlopeInverse == <<869, 3249, 91, 3582>>

\* The seed with low 16 bits c whose bits 16..47 are the pattern b.
SeedAt(b, c) ==
  <<c % Limb,
    (c \div Limb) + (b[2] % 256) * 16,
    (b[2] \div 256) + (b[1] % 16) * 256,
    b[1] \div 16>>

LowStep(a) ==
  LET c0 == a[1] * Slope[1] + Intercept
      c1 == a[2] * Slope[1] + a[1] * Slope[2] + (c0 \div Limb)
  IN <<c0 % Limb, c1 % Limb>>

RECURSIVE LowForward(_, _)
LowForward(a, d) == IF d = 0 THEN a ELSE LowForward(LowStep(a), d - 1)

RECURSIVE Forward(_, _)
Forward(seed, d) == IF d = 0 THEN seed ELSE Forward(StepSeed(seed), d - 1)

AddLimbs(a, b) ==
  LET c0 == a[1] + b[1]
      c1 == a[2] + b[2] + (c0 \div Limb)
      c2 == a[3] + b[3] + (c1 \div Limb)
      c3 == a[4] + b[4] + (c2 \div Limb)
  IN <<c0 % Limb, c1 % Limb, c2 % Limb, c3 % Limb>>

\* (seed - addend) times the inverse of the multiplier, modulo 2^48
StepBack(seed) ==
  Affine(AddLimbs(seed, <<Limb - Intercept, Limb - 1, Limb - 1, Limb - 1>>),
         SlopeInverse, 0)

RECURSIVE Backward(_, _)
Backward(seed, d) == IF d = 0 THEN seed ELSE Backward(StepBack(seed), d - 1)

RECURSIVE SeedChain(_, _)
SeedChain(seed, n) ==
  IF n = 0 THEN <<>> ELSE <<seed>> \o SeedChain(StepSeed(seed), n - 1)

\* The observations from the k-th on hold, given seed_at.
RECURSIVE Agrees(_, _, _, _)
Agrees(seed, at, obs, k) ==
  \/ k > Len(obs)
  \/ /\ obs[k][1] >= at
     /\ LET nxt == Forward(seed, obs[k][1] - at)
        IN /\ NextOutput(nxt, GenBits) = BitsOf(obs[k][2])
           /\ Agrees(nxt, obs[k][1], obs, k + 1)

\* Bits 16..23 of the seed of the second observation, from the low limbs.
LowAgrees(seed, obs) ==
  \/ Len(obs) < 2
  \/ obs[2][1] < obs[1][1]
  \/ LowForward(<<seed[1], seed[2]>>, obs[2][1] - obs[1][1])[2] \div 16
       = BitsOf(obs[2][2])[2] % 256

\* The values of seed_0 in the models of find_seed with the observations
\* obs, given by increasing index.
SeedSearch(obs) ==
  LET first == BitsOf(obs[1][2])
      low == {c \in 0..(Half - 1) : LowAgrees(SeedAt(first, c), obs)}
  IN {Backward(SeedAt(first, c), obs[1][1]) :
        c \in {d \in low : Agrees(SeedAt(first, d), obs[1][1], obs, 1)}}

\* The assignment with the given seed_0 and bits 48..63 of original_seed.
SeedModelOf(seed0, top, n) ==
  LET sd == SeedChain(seed0, n + 1)
      low == [i \in 1..4 |-> Xor(seed0[i], Slope[i])]
  IN [original_seed |-> low \o <<top>>,
      seeds |-> sd,
      next_outputs |-> [i \in 1..n |-> NextOutput(sd[i + 1], GenBits)]]

\* The observations asserted, each once, in the order they were added.
RECURSIVE Distinct(_)
Distinct(q) ==
  IF q = <<>> THEN <<>>
  ELSE LET r == Distinct(SubSeq(q, 1, Len(q) - 1))
       IN IF q[Len(q)] \in Range(r) THEN r ELSE Append(r, q[Len(q)])

FirstTwo == <<<<1, known_ints[1]>>, <<2, known_ints[2]>>>>
SolvedFirstTwo == SeedSearch(FirstTwo)

SeedStarts(obs) ==
  IF Distinct(obs) = FirstTwo THEN Once(SolvedFirstTwo)
  ELSE SeedSearch(Distinct(obs))

\* Bits 48..63 of original_seed are in no assertion but the blocking ones.
\* The backend answers with one of the Fanout least values that are left
\* for them, or with the least value that is left.
SeedTops(seed0, bl) ==
  LET low == [i \in 1..4 |-> Xor(seed0[i], Slope[i])]
      used == {bl[k].original_seed[5] :
                 k \in {j \in 1..Len(bl) :
                          SubSeq(bl[j].original_seed, 1, 4) = low}}
  IN {t \in 0..(Fanout - 1) : t \notin used}
     \cup {t \in 0..Len(bl) : t \notin used /\ \A u \in 0..(t - 1) : u \in used}

SeedCheck(n, obs, bl) ==
  LET found == {m \in {SeedModelOf(s0[1], s0[2], n) :
                         s0 \in {<<z, t>> : z \in SeedStarts(obs),
                                            t \in 0..(Fanout + Len(bl))}} :
                  /\ m.original_seed[5] \in SeedTops(m.seeds[1], bl)
                  /\ SeedSatisfies(m, n, obs, bl)}
  IN IF found = {}
     THEN {[verdict |-> "unsat", model |-> NoModel]}
     ELSE {[verdict |-> "sat", model |-> m] : m \in found}

(***************************************************************************)
(* The cells on java.util.Random.                                          *)
(***************************************************************************)
Seed1337 == <<1337, 0, 0, 0, 0>>
n_solutions == 10

\* itertools.combinations(range(len(known_ints)), 2)
index_pairs ==
  <<<<0, 1>>, <<0, 2>>, <<0, 3>>, <<0, 4>>, <<0, 5>>,
    <<1, 2>>, <<1, 3>>, <<1, 4>>, <<1, 5>>,
    <<2, 3>>, <<2, 4>>, <<2, 5>>,
    <<3, 4>>, <<3, 5>>,
    <<4, 5>>>>

\* find_seed(len(known_ints)), the first two outputs, check(), the seed
\* shown, and the comparison of the six outputs with known_ints.
ExtractSeed ==
  /\ pc = "idle"
  /\ \E r \in SeedCheck(Len(known_ints), FirstTwo, <<>>) :
       /\ query' = FirstTwo
       /\ blocked' = <<>>
       /\ verdict' = r.verdict
       /\ model' = r.model
       /\ IF r.verdict = "sat"
          THEN LET passed ==
                     \A i \in 1..Len(known_ints) :
                       ToSigned(r.model.next_outputs[i]) = known_ints[i]
               IN /\ out' = <<Line("sat", 0, <<>>, {}),
                              Line("original_seed", 0,
                                   r.model.original_seed, {})>>
                            \o (IF passed
                                THEN <<Line("All assertions passed", 0,
                                            <<>>, {})>>
                                ELSE <<>>)
                  /\ pc' = IF passed THEN "done" ELSE "failed"
          ELSE /\ out' = <<Line("unsat", 0, <<>>, {})>>
               /\ pc' = "failed"
  /\ UNCHANGED <<counter, solution_list>>

\* One pass of `for i, j in index_pairs`; counter is the number of pairs
\* done.  A failed assert ends the cell.
Pairs ==
  /\ pc \in {"idle", "pairs"}
  /\ LET k == IF pc = "idle" THEN 1 ELSE counter + 1
         i == index_pairs[k][1]
         j == index_pairs[k][2]
         obs == <<<<i + 1, known_ints[i + 1]>>, <<j + 1, known_ints[j + 1]>>>>
     IN \E r \in SeedCheck(Len(known_ints), obs, <<>>) :
          /\ query' = obs
          /\ blocked' = <<>>
          /\ verdict' = r.verdict
          /\ model' = r.model
          /\ counter' = k
          /\ IF r.verdict = "sat" /\ r.model.original_seed = Seed1337
             THEN /\ out' = Append(Append(IF pc = "idle" THEN <<>> ELSE out,
                                Line("Trying sequence indices", 0,
                                     <<i, j>>, {})),
                                Line("All assertions passed", 0, <<>>, {}))
                  /\ pc' = IF k < Len(index_pairs) THEN "pairs" ELSE "done"
             ELSE /\ out' = Append(IF pc = "idle" THEN <<>> ELSE out,
                                   Line("Trying sequence indices", 0,
                                        <<i, j>>, {}))
                  /\ pc' = "failed"
  /\ UNCHANGED solution_list

\* solver = find_seed(...); n_solutions = 10; print('Looking for ...')
SeedStart ==
  /\ pc = "idle"
  /\ pc' = "seeds"
  /\ query' = <<>>
  /\ blocked' = <<>>
  /\ verdict' = "none"
  /\ model' = NoModel
  /\ out' = <<Line("Looking for", n_solutions, <<>>, {})>>
  /\ counter' = 0
  /\ solution_list' = <<>>

\* One pass of `for i in range(n_solutions)`; counter is i.
SeedIterate ==
  /\ pc = "seeds"
  /\ \E r \in SeedCheck(Len(known_ints), query \o FirstTwo, blocked) :
       /\ verdict' = r.verdict
       /\ model' = r.model
       /\ IF r.verdict = "sat"
          THEN /\ solution_list' = Append(solution_list, r.model.original_seed)
               /\ out' = Append(out, Line("Found solution #", counter + 1,
                                          r.model.original_seed, {}))
               /\ blocked' = Append(blocked, r.model)
          ELSE UNCHANGED <<solution_list, out, blocked>>
  /\ query' = query \o FirstTwo
  /\ counter' = counter + 1
  /\ pc' = IF counter + 1 < n_solutions THEN "seeds" ELSE "done"

NextSeed ==
  \/ ExtractSeed
  \/ Pairs
  \/ SeedStart
  \/ SeedIterate
  \/ Return

SpecSeed == Init /\ [][NextSeed]_vars

\* The two loops that enumerate: enumerate_solutions and the seed loop.
NextLoops ==
  \/ Start(FALSE)
  \/ Iterate(FALSE)
  \/ Exit(FALSE)
  \/ SeedStart
  \/ SeedIterate
  \/ Return

SpecLoops == Init /\ [][NextLoops]_vars

(***************************************************************************)
(* Properties of the enumerating loops (SpecLoops).                        *)
(***************************************************************************)
Exhausted == Models(query) \subseteq Range(blocked)

C2_Step ==
  /\ (pc = "loop" /\ pc' = "done")
       => /\ verdict' = "unsat"
          /\ Exhausted
          /\ solution_list' = solution_list
  /\ (pc = "loop" /\ pc' = "loop")
       => /\ verdict' = "sat"
          /\ model' \notin Range(blocked)
          /\ solution_list' = Append(solution_list, model'.output_next)
  /\ (pc = "loop" /\ Exhausted) => pc' = "done"
  /\ (pc = "loop" /\ ~Exhausted) => pc' = "loop"
  /\ (pc = "seeds")
       => /\ Len(solution_list') <= n_solutions
          /\ verdict' = "sat" => Len(solution_list') = Len(solution_list) + 1
          /\ verdict' # "sat" => solution_list' = solution_list
          /\ pc' = "done" <=> counter' = n_solutions
          /\ (pc' = "seeds" /\ verdict' = "sat")
               => Len(solution_list') < n_solutions

C4_SeedRead ==
  (Len(out) > 0 /\ out[1].text = "Trying sequence indices")
    => (verdict = "sat" /\ model.original_seed = Seed1337)

InSeedLoop == Len(out) > 0 /\ out[1].text = "Looking for"

\* C5: the seeds found by solving the query on the first two outputs again
\* and again, each time blocking the seed just found, agree on bits 0..47
\* and differ in bits 48..63 only; those bits are in no assertion, every
\* seed found gives the same seed_0 and the same outputs, and ten distinct
\* seeds are found.
C5_SeedFreedom ==
  InSeedLoop =>
    /\ \A i, j \in 1..Len(solution_list) :
         /\ SubSeq(solution_list[i], 1, 4) = SubSeq(solution_list[j], 1, 4)
         /\ i # j => solution_list[i][5] # solution_list[j][5]
         /\ blocked[i].seeds = blocked[j].seeds
         /\ blocked[i].next_outputs = blocked[j].next_outputs
    /\ \A i \in 1..Len(solution_list) :
         /\ blocked[i].original_seed = solution_list[i]
         /\ Scramble(solution_list[i]) = blocked[i].seeds[1]
         /\ \A k \in 1..Len(known_ints) :
              ToSigned(blocked[i].next_outputs[k]) = known_ints[k]
         /\ \A t \in {0, 1, Half \div 2, Half - 1} :
              SeedSatisfies([blocked[i] EXCEPT !.original_seed[5] = t],
                            Len(known_ints), query, <<>>)
    /\ Len(solution_list) = counter
    /\ pc = "done" => Cardinality(Range(solution_list)) = n_solutions

C5_Witness ==
  /\ InSeedLoop
  /\ pc = "done"
  /\ Len(solution_list) = n_solutions
  /\ \E i \in 1..Len(solution_list) : solution_list[i] # Seed1337

(***************************************************************************)
(* The transition model of make_constraints_next / break_rand for any      *)
(* parameters, on small bit-vectors: the seeds are vectors of p.container  *)
(* bits, the recurrence is masked to p.width bits (break_rand: no mask,    *)
(* width = container), an output is the top p.gen_bits bits of the masked  *)
(* seed.  p.state_0 is the value the first seed is fixed to.               *)
(***************************************************************************)
LcgParameters ==
  [container : 1..MaxWidth, width : 1..MaxWidth, gen_bits : 1..MaxWidth,
   multiplier : 0..(Pow2(MaxWidth) - 1), increment : 0..(Pow2(MaxWidth) - 1),
   state_0 : 0..(Pow2(MaxWidth) - 1), n : 1..MaxSteps]

WellFormed(p) ==
  /\ p.gen_bits <= p.width
  /\ p.width <= p.container
  /\ p.multiplier < Pow2(p.container)
  /\ p.increment < Pow2(p.container)
  /\ p.state_0 < Pow2(p.container)

\* (seeds[i-1] * multiplier + addend) & mask
LcgNext(p, seed) ==
  ((seed * p.multiplier + p.increment) % Pow2(p.container)) % Pow2(p.width)

\* Extract(31, 0, LShR(seeds[i], 48 - gen_bits)): the extraction is at least
\* gen_bits wide, so it cuts nothing of a shifted seed.
LcgOutput(p, seed) == (seed \div Pow2(p.width - p.gen_bits)) % Pow2(p.container)

\* constraints.append(seeds[i] == (seeds[i-1] * multiplier + addend) & mask)
StepHoldsExact(p, prev, seed) == seed = prev * p.multiplier + p.increment

StepHoldsLoose(p, prev, seed) == seed % Pow2(p.width) = LcgNext(p, prev)

\* The recurrence without the mask.
StepHoldsUnmasked(p, prev, seed) ==
  seed = (prev * p.multiplier + p.increment) % Pow2(p.container)

StepHolds(p, prev, seed) == seed = LcgNext(p, prev)

\* constraints.append(next_outputs[i] == Extract(...))
OutputHolds(p, seed, o) == o = LcgOutput(p, seed)

LcgHolds(p, m) ==
  /\ Len(m.states) = p.n + 1
  /\ Len(m.outputs) = p.n
  /\ m.states[1] = p.state_0
  /\ \A i \in 1..p.n :
       /\ StepHolds(p, m.states[i], m.states[i + 1])
       /\ OutputHolds(p, m.states[i + 1], m.outputs[i])

\* All assignments of seed_0 .. seed_n and output_1 .. output_n that satisfy
\* the constraints with seed_0 fixed, found by extending the assignments of
\* one transition less by every value of the next seed and output.
RECURSIVE LcgModels(_, _)
LcgModels(p, i) ==
  IF i = 0 THEN {[states |-> <<p.state_0>>, outputs |-> <<>>]}
  ELSE LET values == 0..(Pow2(p.container) - 1)
           next(m) == {v \in values : StepHolds(p, m.states[i], v)}
           outs(v) == {o \in values : OutputHolds(p, v, o)}
       IN UNION {UNION {{[states |-> Append(m.states, v),
                          outputs |-> Append(m.outputs, o)] : o \in outs(v)} :
                        v \in next(m)} :
                 m \in LcgModels(p, i - 1)}

\* Running the generator: state_i = (state_{i-1} * multiplier + increment)
\* mod 2^width, and the output of every state.
RECURSIVE LcgRun(_, _)
LcgRun(p, i) ==
  IF i = 0 THEN [states |-> <<p.state_0>>, outputs |-> <<>>]
  ELSE LET r == LcgRun(p, i - 1)
           nxt == LcgNext(p, r.states[i])
       IN [states |-> Append(r.states, nxt),
           outputs |-> Append(r.outputs, LcgOutput(p, nxt))]

InitLcg ==
  /\ pc = "lcg"
  /\ query \in {p \in LcgParameters : WellFormed(p)}
  /\ blocked = <<>>
  /\ verdict = "none"
  /\ model = {}
  /\ out = <<>>
  /\ counter = 0
  /\ solution_list = <<>>

\* Solve with seed_0 fixed, and run the generator from the same seed.
Solve ==
  /\ pc = "lcg"
  /\ pc' = "solved"
  /\ model' = LcgModels(query, query.n)
  /\ verdict' = IF model' = {} THEN "unsat" ELSE "sat"
  /\ out' = <<LcgRun(query, query.n)>>
  /\ UNCHANGED <<query, blocked, counter, solution_list>>

NextLcg == Solve

SpecLcg == InitLcg /\ [][NextLcg]_vars

\* C10: for every state_0 and every choice of the parameters, the transition
\* model with state_0 fixed has exactly one satisfying assignment, and its
\* states and outputs are those of running the recurrence
\* state_i = (state_{i-1} * multiplier + increment) mod 2^width and taking
\* the output of every state.
C10_FixedSeed ==
  (pc = "solved") =>
    /\ verdict = "sat"
    /\ Cardinality(model) = 1
    /\ \A m \in model :
         /\ LcgHolds(query, m)
         /\ m = out[1]
         /\ \A i \in 1..query.n :
              /\ m.states[i + 1]
                   = ((m.states[i] * query.multiplier + query.increment)
                      % Pow2(query.container)) % Pow2(query.width)
              /\ m.outputs[i]
                   = m.states[i + 1] \div Pow2(query.width - query.gen_bits)

C10_Witness ==
  /\ pc = "solved"
  /\ query.n = MaxSteps
  /\ query.width < query.container
  /\ query.multiplier > 1
  /\ out[1].states[1] # out[1].states[2]
  /\ out[1].states[2] # out[1].states[3]
  /\ model = {out[1]}

(***************************************************************************)
(* The transition constraints with seed_0 left free, and then with one     *)
(* output equality added, as solver.add(next_output_1 == v) does.          *)
(***************************************************************************)
LcgValues(p) == 0..(Pow2(p.container) - 1)

\* The satisfying assignments of the constraints make_constraints_next
\* returns, nothing else asserted.
LcgFreeModels(p) ==
  UNION {LcgModels([p EXCEPT !.state_0 = s], p.n) : s \in LcgValues(p)}

InitFree ==
  /\ InitLcg
  /\ query.state_0 = 0

SolveFree ==
  /\ pc = "lcg"
  /\ pc' = "freed"
  /\ model' = LcgFreeModels(query)
  /\ verdict' = IF model' = {} THEN "unsat" ELSE "sat"
  /\ UNCHANGED <<query, blocked, out, counter, solution_list>>

\* solver.add(next_output_1 == v); solver.check()
Observe ==
  /\ pc = "freed"
  /\ pc' = "observed"
  /\ \E v \in LcgValues(query) :
       /\ blocked' = <<v>>
       /\ model' = {m \in model : m.outputs[1] = v}
  /\ verdict' = IF model' = {} THEN "unsat" ELSE "sat"
  /\ UNCHANGED <<query, out, counter, solution_list>>

NextFree ==
  \/ SolveFree
  \/ Observe

SpecFree == InitFree /\ [][NextFree]_vars

\* C11: the transition constraints alone (the recurrence and the definitions
\* of the outputs, no output equality) are satisfiable for every number of
\* transitions and every choice of the parameters, one assignment for every
\* value of seed_0; a query is unsatisfiable only after an output equality
\* has been added.
C11_RecurrenceSatisfiable ==
  /\ (pc = "freed") =>
       /\ verdict = "sat"
       /\ \A s \in LcgValues(query) :
            Cardinality({m \in model : m.states[1] = s}) = 1
       /\ \A m \in model :
            LcgHolds([query EXCEPT !.state_0 = m.states[1]], m)
  /\ (verdict = "unsat") => (pc = "observed" /\ Len(blocked) = 1)

C11_Witness ==
  /\ pc = "observed"
  /\ verdict = "unsat"
  /\ query.n = MaxSteps
  /\ query.multiplier > 1
  /\ query.gen_bits > 1

(***************************************************************************)
(* Further properties of the enumeration cells (Spec).                     *)
(***************************************************************************)
C12_Step ==
  /\ (pc = "loop")
       => /\ query' = query
          /\ SubSeq(blocked', 1, Len(blocked)) = blocked
  /\ (pc = "loop" /\ verdict' = "sat")
       => /\ blocked' = Append(blocked, model')
          /\ Remaining(query', blocked') \subseteq Remaining(query, blocked)
          /\ Remaining(query', blocked') # Remaining(query, blocked)
  /\ (pc = "loop" /\ verdict' # "sat") => blocked' = blocked

\* C12: while the enumeration runs the asserted constraints only grow: a
\* pass that finds a model adds exactly one blocking clause, no recurrence,
\* observation or earlier clause is removed or replaced, and the satisfying
\* assignments after the pass are a strict subset of those before it.
C12_Monotonic == [][C12_Step]_vars

C12_Witness ==
  /\ pc = "loop"
  /\ Len(blocked) = 5
  /\ Cardinality(Remaining(query, blocked)) + 5 = Cardinality(Models(query))

(***************************************************************************)
(* Binding observations: solver.add(next_outputs[f'next_output_{i}'] == v) *)
(* for each observation <<i, v>>, then solver.check().  next_outputs has   *)
(* the keys next_output_1 .. next_output_n; another key raises KeyError    *)
(* when the observation is bound, before check() is called.                *)
(***************************************************************************)
InitBind ==
  /\ InitFree
  /\ query.n = MaxSteps
  /\ query.container = MaxWidth
  /\ query.width = MaxWidth

\* make_constraints_next(...) and a solver holding its constraints.
Build ==
  /\ pc = "lcg"
  /\ pc' = "built"
  /\ model' = LcgFreeModels(query)
  /\ UNCHANGED <<query, blocked, verdict, out, counter, solution_list>>

HasKey(p, i) == i \in 1..p.n

Bind ==
  /\ pc = "built"
  /\ \E i, j \in 0..query.n, v, w \in LcgValues(query) :
       LET obs == <<<<i, v>>, <<j, w>>>>
       IN /\ blocked' = obs
          /\ IF HasKey(query, i) /\ HasKey(query, j)
             THEN /\ model' = {m \in model : \A k \in 1..Len(obs) :
                                 m.outputs[obs[k][1]] = obs[k][2]}
                  /\ verdict' = IF model' = {} THEN "unsat" ELSE "sat"
                  /\ pc' = "checked"
                  /\ out' = out
             ELSE /\ model' = {}
                  /\ verdict' = "none"
                  /\ pc' = "failed"
                  /\ out' = <<Line("KeyError", 0, <<>>, {})>>
  /\ UNCHANGED <<query, counter, solution_list>>

NextBind ==
  \/ Build
  \/ Bind

SpecBind == InitBind /\ [][NextBind]_vars

Conflicting(obs) ==
  \E a, b \in 1..Len(obs) : obs[a][1] = obs[b][1] /\ obs[a][2] # obs[b][2]

\* C13: building a query fails, before any check(), when an observation has
\* index 0 (and no seed is bound) or when two observations have the same
\* index and different values: no constraint set reaches the solver and no
\* satisfiable / unsatisfiable result is produced.
C13_InvalidObservation ==
  (pc \in {"checked", "failed"}
     /\ (Conflicting(blocked) \/ \E k \in 1..Len(blocked) : blocked[k][1] = 0))
    => (pc = "failed" /\ verdict = "none")

(***************************************************************************)
(* The seed binding of find_seed / find_seed_nextLong on its own: for an   *)
(* original_seed, the assignment of seed_0 the binding leaves.             *)
(***************************************************************************)
LimbSamples == {0, 1337, 4095}
TopSamples == {0, 1, Half \div 2, Half - 1}

InitMix ==
  /\ pc = "seed"
  /\ query \in {<<a, b, c, d, t>> : a \in LimbSamples, b \in LimbSamples,
                                    c \in LimbSamples, d \in LimbSamples,
                                    t \in TopSamples}
  /\ blocked = <<>>
  /\ verdict = "none"
  /\ model = NoModel
  /\ out = <<>>
  /\ counter = 0
  /\ solution_list = <<>>

\* s.add(seeds['seed_0'] == (original_seed ^ multiplier) & mask); check()
BindSeed ==
  /\ pc = "seed"
  /\ pc' = "bound"
  /\ verdict' = "sat"
  /\ model' = [original_seed |-> query,
               seeds |-> <<Scramble(query)>>,
               next_outputs |-> <<>>]
  /\ UNCHANGED <<query, blocked, out, counter, solution_list>>

NextMix == BindSeed

SpecMix == InitMix /\ [][NextMix]_vars

\* C14: in a satisfying assignment of a query with the seed bound, seed_0 is
\* (original_seed XOR multiplier) AND (2^48 - 1); the mixing can be undone on
\* bits 0..47, where original_seed is seed_0 XOR multiplier, so seed_0 fixes
\* those bits (no other value of them gives the same seed_0) and constrains
\* no bit above them.
C14_SeedMixing ==
  (pc = "bound") =>
    /\ SeedSatisfies(model, 0, <<>>, <<>>)
    /\ \A i \in 1..4 :
         /\ model.seeds[1][i] < Limb
         /\ model.original_seed[i] = Xor(model.seeds[1][i], Slope[i])
         /\ {x \in 0..(Limb - 1) : Xor(x, Slope[i]) = model.seeds[1][i]}
              = {model.original_seed[i]}
    /\ \A t \in TopSamples :
         SeedBound([model EXCEPT !.original_seed[5] = t])

C14_Witness ==
  /\ pc = "bound"
  /\ model.original_seed = <<1337, 4095, 0, 1337, Half - 1>>
  /\ model.seeds[1] # SubSeq(model.original_seed, 1, 4)

(***************************************************************************)
(* Further properties of the cells on java.util.Random (SpecSeed).         *)
(***************************************************************************)
\* C15: seed_0 has no output: with the seeds seed_0 .. seed_{n-1} the
\* outputs are next_output_1 .. next_output_{n-1}, next_output_i a function
\* of seed_i alone, and the value at position k (from 0) of known_ints is
\* bound to next_output_{k+1}, never to an output of seed_0.
C15_NoOutputOfSeedZero ==
  (Len(query) > 0) =>
    /\ verdict = "sat"
    /\ Len(model.seeds) = Len(known_ints) + 1
    /\ DOMAIN model.next_outputs = 1..(Len(model.seeds) - 1)
    /\ \A i \in DOMAIN model.next_outputs :
         model.next_outputs[i] = NextOutput(model.seeds[i + 1], GenBits)
    /\ \A k \in 1..Len(query) :
         /\ query[k][1] \in 1..Len(known_ints)
         /\ query[k][2] = known_ints[query[k][1]]
         /\ NextOutput(model.seeds[query[k][1] + 1], GenBits)
              = BitsOf(query[k][2])
         /\ NextOutput(model.seeds[1], GenBits) # BitsOf(query[k][2])

C15_Witness ==
  /\ pc = "pairs"
  /\ verdict = "sat"
  /\ query = <<<<2, known_ints[2]>>, <<6, known_ints[6]>>>>
  /\ Len(model.next_outputs) = 6

(***************************************************************************)
(* The output extraction of make_constraints_next on its own, for a seed   *)
(* below 2^48 and any gen_bits; counter holds gen_bits.                    *)
(***************************************************************************)
MaxGenBits == 32

InitExtract ==
  /\ pc = "seed48"
  /\ query \in {<<a, b, c, d>> : a \in LimbSamples, b \in LimbSamples,
                                 c \in LimbSamples, d \in LimbSamples}
  /\ counter \in 1..MaxGenBits
  /\ blocked = <<>>
  /\ verdict = "none"
  /\ model = NoModel
  /\ out = <<>>
  /\ solution_list = <<>>

\* next_outputs[i] == Extract(31, 0, LShR(seeds[i], 48 - gen_bits))
ExtractOutput ==
  /\ pc = "seed48"
  /\ pc' = "extracted"
  /\ model' = [original_seed |-> <<>>,
               seeds |-> <<query>>,
               next_outputs |-> <<NextOutput(query, counter)>>]
  /\ UNCHANGED <<query, blocked, verdict, out, counter, solution_list>>

NextExtract == ExtractOutput

SpecExtract == InitExtract /\ [][NextExtract]_vars

\* Bit k of a 48-bit seed and of a 32-bit pattern.
SeedBit(seed, k) ==
  IF k > 47 THEN 0 ELSE (seed[(k \div 12) + 1] \div Pow2(k % 12)) % 2
PatternBit(b, k) ==
  IF k >= 16 THEN (b[1] \div Pow2(k - 16)) % 2 ELSE (b[2] \div Pow2(k)) % 2

\* C16: for every seed below 2^48 and every gen_bits in 1..32 the output
\* Extract(31, 0, LShR(seed, 48 - gen_bits)) is bits 47 .. 48 - gen_bits of
\* the seed, the top gen_bits bits, extended with zeros to 32 bits; with
\* gen_bits = 31 bit 31 of the output is 0.
C16_TopBits ==
  (pc = "extracted") =>
    /\ \A k \in 0..31 :
         PatternBit(model.next_outputs[1], k)
           = IF k < counter THEN SeedBit(query, 48 - counter + k) ELSE 0
    /\ counter = 31 => model.next_outputs[1][1] < Half \div 2

C16_Witness ==
  /\ pc = "extracted"
  /\ counter = 31
  /\ query = <<1337, 0, 4095, 4095>>
  /\ model.next_outputs[1][1] = Half \div 2 - 1

(***************************************************************************)
(* Reading a 32-bit pattern as a signed int, as the asserts on the outputs *)
(* do with bs.BitArray(uint=..., length=32).int; counter holds the int.    *)
(***************************************************************************)
HalfSamples ==
  {0, 1, Half \div 2 - 1, Half \div 2, Half - 1}
    \cup UNION {{BitsOf(known_ints[i])[1], BitsOf(known_ints[i])[2]} :
                  i \in 1..Len(known_ints)}

InitSigned ==
  /\ pc = "pattern"
  /\ query \in HalfSamples \X HalfSamples
  /\ blocked = <<>>
  /\ verdict = "none"
  /\ model = NoModel
  /\ out = <<>>
  /\ counter = 0
  /\ solution_list = <<>>

Reinterpret ==
  /\ pc = "pattern"
  /\ pc' = "signed"
  /\ counter' = ToSigned(query)
  /\ UNCHANGED <<query, blocked, verdict, model, out, solution_list>>

NextSigned == Reinterpret

SpecSigned == InitSigned /\ [][NextSigned]_vars

\* C17: the signed reading of a pattern is the pattern itself or the pattern
\* less 2^32 when bit 31 is set: it is congruent to the pattern modulo 2^32
\* and one to one, so an equality with an observed signed value (such as
\* -1460590454) is the equality with its pattern (2834376842 = 43249 * 2^16
\* + 10378), and nothing else of the query changes.
C17_SignedReading ==
  /\ (pc = "signed") =>
       /\ BitsOf(counter) = query
       /\ counter < 0 <=> query[1] >= Half \div 2
       /\ counter >= 0 => counter = query[1] * Half + query[2]
       /\ counter < 0 => (counter - query[2]) \div Half = query[1] - Half
  /\ \A i \in 1..Len(known_ints) : ToSigned(BitsOf(known_ints[i])) = known_ints[i]
  /\ BitsOf(-1460590454) = <<43249, 10378>>

C17_Witness ==
  /\ pc = "signed"
  /\ query = <<43249, 10378>>
  /\ counter = -1460590454

(***************************************************************************)
(* find_seed_nextLong(sequence_length): the assertions of find_seed for    *)
(* 2 * sequence_length outputs, and the Int variables nextLong_output_i.   *)
(* An integer of 64 bits is held as <<q, r>>: it is q * 2^32 + r, q an     *)
(* integer and r = <<bits 16..31, bits 0..15>> in 0 .. 2^32 - 1.           *)
(***************************************************************************)
\* BV2Int(first, is_signed=True) * 2 ** 32 + BV2Int(second, is_signed=True)
LongSumSecondUnsigned(first, second) == <<ToSigned(first), second>>

LongSum(first, second) ==
  <<ToSigned(first) - (IF ToSigned(second) < 0 THEN 1 ELSE 0), second>>

\* -6273188232032513096, -5732460968968632244, -2153239239327503087,
\* -1872204974168004231
known_longs ==
  <<<<-1460590454, <<11402, 37816>>>>, <<-1334692578, <<57301, 18508>>>>,
    <<-501340079, <<63347, 44305>>>>, <<-435906690, <<53247, 10617>>>>>>

\* nextLong_output_i == first_next + second_next, for the outputs 2i - 1
\* and 2i of next()
LongsDefined(m) ==
  /\ 2 * Len(m.nextLong_outputs) = Len(m.next_outputs)
  /\ \A i \in 1..Len(m.nextLong_outputs) :
       m.nextLong_outputs[i] =
         LongSum(m.next_outputs[2 * i - 1], m.next_outputs[2 * i])

\* solver.add(nextLong_outputs['nextLong_output_1'] == known_longs[0])
LongsObserved(m, obs) ==
  \A k \in 1..Len(obs) : m.nextLong_outputs[obs[k][1]] = obs[k][2]

LongSatisfies(m, n, obs) ==
  /\ SeedSatisfies(m, 2 * n, <<>>, <<>>)
  /\ LongsDefined(m)
  /\ LongsObserved(m, obs)

\* The assignment with the given seed_0 and bits 48..63 of original_seed.
LongModelOf(seed0, top, n) ==
  LET m == SeedModelOf(seed0, top, 2 * n)
  IN [original_seed |-> m.original_seed,
      seeds |-> m.seeds,
      next_outputs |-> m.next_outputs,
      nextLong_outputs |->
        [i \in 1..n |-> LongSum(m.next_outputs[2 * i - 1],
                                m.next_outputs[2 * i])]]

\* The two outputs of next() that the sum v is made of, when there are any:
\* the second is the low 32 bits of v, the first is what is left.
LongParts(v) ==
  LET first == v[1] + (IF ToSigned(v[2]) < 0 THEN 1 ELSE 0)
  IN IF v[1] = (Half \div 2 - 1) * Half + (Half - 1) /\ ToSigned(v[2]) < 0
     THEN {}
     ELSE {<<first, ToSigned(v[2])>>}

\* check() and model() of the solver of find_seed_nextLong with the
\* observation obs on one nextLong_output_i.
LongCheck(n, obs) ==
  LET i == obs[1][1]
      starts == UNION {SeedSearch(<<<<2 * i - 1, p[1]>>, <<2 * i, p[2]>>>>) :
                         p \in LongParts(obs[1][2])}
      found == {m \in UNION {{LongModelOf(z, t, n) :
                                 t \in SeedTops(z, <<>>)} : z \in starts} :
                  LongSatisfies(m, n, obs)}
  IN IF found = {}
     THEN {[verdict |-> "unsat", model |-> NoModel]}
     ELSE {[verdict |-> "sat", model |-> m] : m \in found}

(***************************************************************************)
(* The cells on nextLong().                                                *)
(***************************************************************************)
\* Random(seed).nextLong(), n times
NextLongs(seed, n) ==
  LongModelOf(Scramble(seed), seed[5], n).nextLong_outputs

\* The values Random() is instantiated with.
LongSeeds ==
  {<<a, b, c, 0, 0>> : a \in LimbSamples, b \in LimbSamples,
                       c \in LimbSamples}

\* known_longs = [...]: the sequence of four calls of nextLong(), kept in
\* solution_list.
LongSequence ==
  /\ pc = "idle"
  /\ \E seed \in LongSeeds : solution_list' = NextLongs(seed, Len(known_longs))
  /\ pc' = "longs"
  /\ query' = <<>>
  /\ blocked' = <<>>
  /\ verdict' = "none"
  /\ model' = NoModel
  /\ out' = <<>>
  /\ counter' = 0

\* find_seed_nextLong(len(known_longs)), the first long, check(), the seed
\* shown, and the comparison of the four longs with known_longs.
ExtractLong ==
  /\ pc = "longs"
  /\ LET obs == <<<<1, solution_list[1]>>>>
     IN \E r \in LongCheck(Len(solution_list), obs) :
          /\ query' = obs
          /\ verdict' = r.verdict
          /\ model' = r.model
          /\ IF r.verdict = "sat"
             THEN LET passed ==
                        \A i \in 1..Len(solution_list) :
                          r.model.nextLong_outputs[i] = solution_list[i]
                  IN /\ out' = <<Line("sat", 0, <<>>, {}),
                                 Line("original_seed", 0,
                                      r.model.original_seed, {})>>
                               \o (IF passed
                                   THEN <<Line("All assertions passed", 0,
                                               <<>>, {})>>
                                   ELSE <<>>)
                     /\ pc' = IF passed THEN "done" ELSE "failed"
             ELSE /\ out' = <<Line("unsat", 0, <<>>, {})>>
                  /\ pc' = "failed"
  /\ UNCHANGED <<blocked, counter, solution_list>>

NextLong ==
  \/ LongSequence
  \/ ExtractLong
  \/ Return

SpecLong == Init /\ [][NextLong]_vars

(***************************************************************************)
(* Properties of the cells on nextLong() (SpecLong).                       *)
(***************************************************************************)
\* The values Random() may have been instantiated with, given the sequence.
Generators ==
  {seed \in LongSeeds : NextLongs(seed, Len(known_longs)) = solution_list}

AfterExtractLong == Len(query) = 1 /\ Len(solution_list) = Len(known_longs)

\* Every model of the query has the seed_0 and the low 48 bits of
\* original_seed of the generator, and its nextLong outputs are the
\* generator's.
LongDetermined ==
  AfterExtractLong
    => /\ verdict = "sat"
       /\ \E seed \in Generators :
            /\ SubSeq(model.original_seed, 1, 4) = SubSeq(seed, 1, 4)
            /\ model.seeds[1] = Scramble(seed)
       /\ model.nextLong_outputs = solution_list
       /\ pc \in {"done", "idle"}
       /\ Cardinality(Generators) = 1
       /\ solution_list = known_longs => Generators = {Seed1337}

\* C18: one observed nextLong() is enough: the query is satisfiable, every
\* model of it has the seed_0 and the low 48 bits of original_seed of the
\* generator and the generator's nextLong outputs, and the seed read from
\* the model returned is the value the generator was instantiated with
\* (1337 for known_longs).
C18_LongSeedRead ==
  /\ LongDetermined
  /\ AfterExtractLong
       => /\ verdict = "sat"
          /\ model.original_seed \in Generators
          /\ solution_list = known_longs => model.original_seed = Seed1337

(***************************************************************************)
(* Prediction of the sequence from two outputs (SpecSeed).                 *)
(***************************************************************************)
LowSampled == 63

\* The assignments that agree with the first observation of obs and whose
\* seed at its index has bits 0..15 in 0..LowSampled, bits 48..63 of
\* original_seed being top.
Candidates(obs, top) ==
  {SeedModelOf(Backward(SeedAt(BitsOf(obs[1][2]), c), obs[1][1]), top,
               Len(known_ints)) : c \in 0..LowSampled}

Predicts(m) ==
  /\ Len(m.next_outputs) = Len(known_ints)
  /\ \A i \in 1..Len(known_ints) : ToSigned(m.next_outputs[i]) = known_ints[i]

TwoObserved ==
  /\ Len(Distinct(query)) = 2
  /\ Distinct(query)[1][1] # Distinct(query)[2][1]

\* C19: in every assignment that satisfies the assertions of find_seed for
\* six outputs and in which two outputs at distinct indices equal the
\* values observed there, the six outputs read as signed 32-bit integers
\* are the six outputs of the generator: the model returned by check(), and
\* each of the sampled assignments that agree with the first observation.
C19_TwoPredictAll ==
  TwoObserved
    => /\ verdict = "sat" => Predicts(model)
       /\ \A top \in {0, 1} :
            \A m \in Candidates(Distinct(query), top) :
              SeedSatisfies(m, Len(known_ints), Distinct(query), <<>>)
                => Predicts(m)

C19_Witness ==
  /\ TwoObserved
  /\ query = <<<<4, known_ints[4]>>, <<6, known_ints[6]>>>>
  /\ verdict = "sat"
  /\ model.original_seed[5] = 1
  /\ Predicts(model)
  /\ \E m \in Candidates(query, 0) :
       /\ OutputsObservedFirst(m, query)
       /\ ~SeedSatisfies(m, Len(known_ints), query, <<>>)

(***************************************************************************)
(* Several queries at once.  Every call of break_rand and of find_seed     *)
(* builds its solver with z.Solver(), so each call in progress has its own *)
(* assertions.  Here pc, query, blocked, verdict, model, counter,          *)
(* solution_list and out are sequences with one entry for each call: call  *)
(* s is not made yet (pc[s] = "none"), in the loop of enumerate_solutions  *)
(* ("loop") or over ("done", "failed").  The steps of the calls interleave *)
(* in any order.                                                           *)
(***************************************************************************)
MaxSessions == 2

Sessions == 1..MaxSessions

SessionCalls == {<<Prefix(9), random_nums[10]>>, <<Zeros(5), 0>>}

InitSessions ==
  /\ pc = [s \in Sessions |-> "none"]
  /\ query = [s \in Sessions |-> <<>>]
  /\ blocked = [s \in Sessions |-> <<>>]
  /\ verdict = [s \in Sessions |-> "none"]
  /\ model = [s \in Sessions |-> NoModel]
  /\ out = [s \in Sessions |-> <<>>]
  /\ counter = [s \in Sessions |-> 0]
  /\ solution_list = [s \in Sessions |-> <<>>]

\* s, states, output_next = break_rand(nums, next_num), counter = 0,
\* solution_list = [], the solver of the call holding the clauses bl.
OpenWith(s, bl) ==
  /\ pc[s] = "none"
  /\ \E call \in SessionCalls :
       \E r \in Check(call[1], bl, FALSE) :
         /\ query' = [query EXCEPT ![s] = call[1]]
         /\ blocked' = [blocked EXCEPT ![s] = bl]
         /\ verdict' = [verdict EXCEPT ![s] = r.verdict]
         /\ model' = [model EXCEPT ![s] = r.model]
         /\ out' = [out EXCEPT ![s] = <<Reported(r, call[2])>>]
  /\ counter' = [counter EXCEPT ![s] = 0]
  /\ solution_list' = [solution_list EXCEPT ![s] = <<>>]
  /\ pc' = [pc EXCEPT ![s] = "loop"]

\* A solver kept from another call, with the clauses added to it.
OpenRandKept(s) ==
  \E t \in Sessions :
    /\ t # s
    /\ pc[t] # "none"
    /\ OpenWith(s, blocked[t])

\* s = z.Solver() in break_rand: the solver of a call starts empty.
OpenRand(s) ==
  /\ pc[s] = "none"
  /\ OpenWith(s, <<>>)

\* One evaluation of `while s.check() == z.sat` in call s, and the pass of
\* the loop or the lines after it.
PassRand(s) ==
  /\ pc[s] = "loop"
  /\ \E r \in Check(query[s], blocked[s], FALSE) :
       /\ verdict' = [verdict EXCEPT ![s] = r.verdict]
       /\ model' = [model EXCEPT ![s] = r.model]
       /\ IF r.verdict = "sat"
          THEN /\ counter' = [counter EXCEPT ![s] = @ + 1]
               /\ solution_list' =
                    [solution_list EXCEPT ![s] = Append(@, r.model.output_next)]
               /\ out' = [out EXCEPT ![s] =
                            Append(@, Line("Solution #", counter[s] + 1,
                                           <<>>, {}))]
               /\ blocked' = [blocked EXCEPT ![s] = Append(@, r.model)]
               /\ pc' = pc
          ELSE /\ out' = [out EXCEPT ![s] =
                            Append(@, Line("Found a total of", counter[s],
                                           solution_list[s],
                                           Range(solution_list[s])))]
               /\ pc' = [pc EXCEPT ![s] = "done"]
               /\ UNCHANGED <<blocked, counter, solution_list>>
  /\ UNCHANGED query

\* One pass of `for i, j in index_pairs`, for the pair (0, 1): find_seed,
\* the two observations, check() and the two asserts.
OpenPair(s) ==
  /\ pc[s] = "none"
  /\ \E r \in SeedCheck(Len(known_ints), FirstTwo, <<>>) :
       /\ query' = [query EXCEPT ![s] = FirstTwo]
       /\ verdict' = [verdict EXCEPT ![s] = r.verdict]
       /\ model' = [model EXCEPT ![s] = r.model]
       /\ IF r.verdict = "sat" /\ r.model.original_seed = Seed1337
          THEN /\ out' = [out EXCEPT ![s] =
                            <<Line("Trying sequence indices", 0, <<0, 1>>, {}),
                              Line("All assertions passed", 0, <<>>, {})>>]
               /\ pc' = [pc EXCEPT ![s] = "done"]
          ELSE /\ out' = [out EXCEPT ![s] =
                            <<Line("Trying sequence indices", 0, <<0, 1>>, {})>>]
               /\ pc' = [pc EXCEPT ![s] = "failed"]
  /\ UNCHANGED <<blocked, counter, solution_list>>

\* The call is over and its solver is dropped.
Close(s) ==
  /\ pc[s] \in {"done", "failed"}
  /\ pc' = [pc EXCEPT ![s] = "none"]
  /\ query' = [query EXCEPT ![s] = <<>>]
  /\ blocked' = [blocked EXCEPT ![s] = <<>>]
  /\ verdict' = [verdict EXCEPT ![s] = "none"]
  /\ model' = [model EXCEPT ![s] = NoModel]
  /\ out' = [out EXCEPT ![s] = <<>>]
  /\ counter' = [counter EXCEPT ![s] = 0]
  /\ solution_list' = [solution_list EXCEPT ![s] = <<>>]

NextSessions ==
  \/ \E s \in Sessions : OpenRand(s)
  \/ \E s \in Sessions : PassRand(s)
  \/ \E s \in Sessions : OpenPair(s)
  \/ \E s \in Sessions : Close(s)

SpecSessions == InitSessions /\ [][NextSessions]_vars

(***************************************************************************)
(* Independence of the queries (SpecSessions).                             *)
(***************************************************************************)
SessionState(s) ==
  <<pc[s], query[s], blocked[s], verdict[s], model[s], out[s], counter[s],
    solution_list[s]>>

Answer(s) == [verdict |-> verdict[s], model |-> model[s]]

C20_Step ==
  \A s \in Sessions :
    SessionState(s)' # SessionState(s)
      => /\ \A t \in Sessions \ {s} : SessionState(t)' = SessionState(t)
         /\ pc[s] = "none"
              => /\ blocked'[s] = <<>>
                 /\ pc'[s] = "loop"
                      => Answer(s)' \in Check(query'[s], <<>>, FALSE)
                 /\ pc'[s] # "loop"
                      => Answer(s)' \in SeedCheck(Len(known_ints), query'[s],
                                                  <<>>)
         /\ pc[s] = "loop"
              => /\ query'[s] = query[s]
                 /\ Answer(s)' \in Check(query[s], blocked[s], FALSE)
                 /\ blocked'[s] = IF verdict'[s] = "sat"
                                  THEN Append(blocked[s], model'[s])
                                  ELSE blocked[s]

\* C20: the queries do not affect one another.  A step of one call changes
\* nothing of any other call; the solver of a call starts without any
\* assertion of another call; and in whatever order the steps of the calls
\* come, each answer of check() is an answer of the call's own assertions
\* (its observations and the blocking clauses of its own loop), so the
\* satisfying assignments of a query are those it has when it runs alone.
C20_Independent == [][C20_Step]_vars

\* Call 1 has exhausted its query; call 2, on the same nums, then finds a
\* model that call 1 has blocked.
C20_Witness ==
  /\ pc[1] = "done"
  /\ pc[2] = "loop"
  /\ query[1] = Prefix(9)
  /\ query[2] = Prefix(9)
  /\ Len(blocked[1]) = 2
  /\ verdict[1] = "unsat"
  /\ verdict[2] = "sat"
  /\ Len(blocked[2]) = 1
  /\ model[2] \in Range(blocked[1])

(***************************************************************************)
(* The names of the symbolic variables of a call (SpecSessions).           *)
(***************************************************************************)
\* z.BitVec(f'state_{i}', 32) for i in range(1, n_nums + 2), and
\* z.BitVec('output_next', 32)
StateNames(nums) ==
  {<<"state", i>> : i \in 1..(Len(nums) + 1)} \cup {<<"output_next", 0>>}

\* z.BitVec(f'seed_{i}', 64) for i in range(n_constraints),
\* z.BitVec(f'output{i}', 32) for i in range(1, n_constraints), and
\* z.BitVec('original_seed', 64), for n_constraints = n + 1
SeedNames(n) ==
  {<<"seed", i>> : i \in 0..n} \cup {<<"output", i>> : i \in 1..n}
    \cup {<<"original_seed", 0>>}

\* The names created by call s.
NamesOf(s) ==
  IF pc[s] = "none" THEN {}
  ELSE IF out[s][1].text = "Trying sequence indices"
       THEN SeedNames(Len(known_ints))
       ELSE StateNames(query[s])

\* C21: no name of a symbolic variable is shared by two queries: the names
\* a call of the builder creates differ from those of every other call.
C21_FreshNames ==
  \A s, t \in Sessions : s # t => NamesOf(s) \cap NamesOf(t) = {}

(***************************************************************************)
(* What the builders do besides building (SpecLoops).                      *)
(***************************************************************************)
\* break_rand or find_seed has just returned to its caller.
Built ==
  \/ pc = "loop" /\ counter = 0 /\ blocked = <<>>
  \/ pc = "seeds" /\ counter = 0

\* C22: building a query consults no backend: when the builder returns,
\* check() and model() have not been called; the backend is first
\* consulted by the caller.
C22_BuilderSilent == Built => (verdict = "none" /\ model = NoModel)

(***************************************************************************)
(* What counts as another solution under a seed binding (SpecSeed).        *)
(***************************************************************************)
OnlyTopDiffers(a, b) ==
  /\ SubSeq(a.original_seed, 1, 4) = SubSeq(b.original_seed, 1, 4)
  /\ a.original_seed[5] # b.original_seed[5]
  /\ a.seeds = b.seeds
  /\ a.next_outputs = b.next_outputs

\* C23 as stated: with the block on the state variables and the seed left
\* out, an assignment that differs from the one just found in bits 48..63
\* of the seed only still satisfies the query, and is counted as another
\* solution.
C23_CountedWithoutSeed ==
  InSeedLoop =>
    \A i, j \in 1..Len(blocked) :
      (i # j /\ OnlyTopDiffers(blocked[i], blocked[j]))
        => SeedBlockingStates(blocked[j], blocked[i])

\* C23, amended: assignments that differ in bits 48..63 of the seed only
\* are counted as distinct solutions because the loop blocks on the seed
\* variable: each solution found satisfies the seed blocks of the others,
\* and satisfies none of their blocks on the state variables, under which
\* it would not be found again.  The loop so counts n_solutions solutions
\* of one and the same generator.
C23_CountedBySeedBlock ==
  InSeedLoop =>
    /\ \A i, j \in 1..Len(blocked) :
         i # j => /\ OnlyTopDiffers(blocked[i], blocked[j])
                  /\ SeedBlocking(blocked[j], blocked[i])
                  /\ ~SeedBlockingStates(blocked[j], blocked[i])
    /\ Len(blocked) = Len(solution_list)
    /\ pc = "done" => Len(solution_list) = n_solutions

C23_Witness ==
  /\ InSeedLoop
  /\ pc = "seeds"
  /\ Len(solution_list) = 2
  /\ solution_list[1][5] = 2
  /\ solution_list[2][5] = 0
  /\ OnlyTopDiffers(blocked[1], blocked[2])

(***************************************************************************)
(* The nextLong outputs of find_seed_nextLong (SpecLong).                  *)
(***************************************************************************)
\* The i of zip(range(1, n + 1), range(1, 2 * n + 1, 2)) whose sum takes
\* next_output_j.
Consumers(j, n) == {i \in 1..n : j \in {2 * i - 1, 2 * i}}

\* Outputs of next() on both sides of the sign bit.
WordSamples ==
  {<<0, 0>>, <<0, 1>>, <<Half \div 2 - 1, Half - 1>>, <<Half \div 2, 1>>,
   <<Half - 1, Half - 1>>}

\* C24: find_seed_nextLong has 2 * sequence_length + 1 seeds, and
\* nextLong_output_i is the integer signed(next_output_{2i-1}) * 2^32 +
\* signed(next_output_{2i}); each of the 2 * sequence_length outputs of
\* next() is in exactly one of the sums, and the value of a sum gives back
\* its two outputs: no two pairs of outputs have the same sum.
C24_LongOutputs ==
  (AfterExtractLong /\ verdict = "sat") =>
    LET n == Len(solution_list)
    IN /\ Len(model.seeds) = 2 * n + 1
       /\ Len(model.next_outputs) = 2 * n
       /\ Len(model.nextLong_outputs) = n
       /\ LongsDefined(model)
       /\ \A j \in 1..(2 * n) : Cardinality(Consumers(j, n)) = 1
       /\ \A i \in 1..n :
            LongParts(model.nextLong_outputs[i]) =
              {<<ToSigned(model.next_outputs[2 * i - 1]),
                 ToSigned(model.next_outputs[2 * i])>>}
       /\ \A a, b, c, d \in WordSamples :
            LongSum(a, b) = LongSum(c, d) => (a = c /\ b = d)
       /\ \A a, b \in WordSamples :
            LongParts(LongSum(a, b)) = {<<ToSigned(a), ToSigned(b)>>}

C24_Witness ==
  /\ AfterExtractLong
  /\ verdict = "sat"
  /\ solution_list = known_longs
  /\ model.original_seed[5] = 2
  /\ ToSigned(model.next_outputs[4]) < 0
  /\ model.nextLong_outputs[2][1] = ToSigned(model.next_outputs[3]) - 1

(***************************************************************************)
(* Termination of enumerate_solutions.  The cell is sequential code: it    *)
(* goes on to its next step as long as it has one, and every check()       *)
(* returns sat or unsat.                                                   *)
(***************************************************************************)
SpecFair == Spec /\ WF_vars(Next)

InLoop == pc \in {"loop", "done"}

\* C25: the loop of enumerate_solutions ends when every check() returns.
\* Each pass that finds a model has a state_1 of its own among the values
\* of the 32 bits of the state, the passes are never more than the values
\* of state_1 whose outputs match the observations, and when the loop ends
\* they are as many as those.
C25_Terminates ==
  /\ [](InLoop =>
          \A ones \in {{m.states[1] : m \in Models(query)}} :
            \A found \in {{blocked[i].states[1] : i \in 1..Len(blocked)}} :
              /\ counter = Len(blocked)
              /\ Cardinality(found) = Len(blocked)
              /\ found \subseteq ones
              /\ \A st \in found : st[1] \in 0..(Half - 1) /\ st[2] \in 0..(Half - 1)
              /\ counter <= Cardinality(ones)
              /\ (pc = "done") => counter = Cardinality(ones))
  /\ (pc = "loop") ~> (pc = "done")

C25_Witness ==
  /\ pc = "done"
  /\ query = Prefix(9)
  /\ verdict = "unsat"
  /\ counter = 2
  /\ {blocked[1].states[1], blocked[2].states[1]} = StateOnes(query)

(***************************************************************************)
(* Completeness of the enumeration (SpecUnknown: the loop may also stop    *)
(* because the backend gave up).                                           *)
(***************************************************************************)
\* State_1 values next to s: one step up or down in either half, and the
\* other value of bit 31.
Neighbours(s) ==
  {<<(s[1] + d) % Half, s[2]>> : d \in {1, Half - 1, Half \div 2}}
    \cup {<<s[1], (s[2] + d) % Half>> : d \in {1, Half - 1}}

StoppedUnsat == pc = "done" /\ verdict = "unsat"

\* C26: when the loop stops on an unsat answer the solutions recorded are
\* the state sequences that satisfy the recurrence and the observations, all
\* of them and each once: none next to a recorded one is missed, and the
\* count is the number of models of the query whatever the order in which
\* the backend returned them.
C26_Complete ==
  StoppedUnsat =>
    /\ \A i \in 1..Len(blocked) :
         /\ Len(blocked[i].states) = Len(query) + 1
         /\ Recurrence(blocked[i])
         /\ Observed(blocked[i], query)
    /\ StatesOf(blocked) = {m.states : m \in Models(query)}
    /\ counter = Cardinality(Models(query))
    /\ Len(solution_list) = counter
    /\ \A i \in 1..Len(blocked) :
         \A s \in Neighbours(blocked[i].states[1]) :
           Matches(s, query, 1, OutRange)
             => Chain(s, Len(query) + 1) \in StatesOf(blocked)

C26_Witness ==
  /\ StoppedUnsat
  /\ query = Prefix(4)
  /\ counter = 40
  /\ blocked[1] # Least(Models(query))
  /\ \E i \in 1..Len(blocked) :
       \E s \in Neighbours(blocked[i].states[1]) :
         Matches(s, query, 1, OutRange)

(***************************************************************************)
(* The transition of break_rand as a bijection of the 32-bit states.       *)
(***************************************************************************)
\* The product of two 16-bit values, as <<bits 16..31, bits 0..15>>.
Mul16(a, b) ==
  LET p1 == a * (b \div 256)
      t == (p1 % 256) * 256 + a * (b % 256)
  IN <<((p1 \div 256) + (t \div Half)) % Half, t % Half>>

\* The 32-bit value v with 214013 * v = 1 (mod 2^32), if there is one: its
\* low half inverts the low half of the multiplier, its high half cancels
\* what is carried into the high half of the product.
InverseMultiplier ==
  LET ml == Multiplier % Half
      mh == Multiplier \div Half
      il == CHOOSE x \in 0..(Half - 1) : (ml * x) % Half = 1
      ih == CHOOSE x \in 0..(Half - 1) :
              (((ml * il) \div Half) + ((ml * x) % Half) + mh * il) % Half = 0
  IN <<ih, il>>

\* (state - 2531011) * InverseMultiplier (mod 2^32)
RandInverse(s) ==
  LET cl == Increment % Half
      ch == Increment \div Half
      dl == (s[2] + Half - cl) % Half
      dh == (s[1] + 2 * Half - ch - (IF s[2] < cl THEN 1 ELSE 0)) % Half
      low == Mul16(dl, InverseMultiplier[2])
  IN <<(low[1] + Mul16(dl, InverseMultiplier[1])[2]
          + Mul16(dh, InverseMultiplier[2])[2]) % Half,
       low[2]>>

Blocked == pc \in {"loop", "done"} /\ blocked # <<>>

\* C27: 214013 is odd and the transition has an inverse, so it is a
\* bijection of the states; a model of the query that agrees with the model
\* just found in one state variable is that model, and the clause "some
\* state_i differs from the one found" excludes from the models of the query
\* the model just found and no other, as "state_1 differs" alone does.
C27_OneStateDetermines ==
  /\ Multiplier % 2 = 1
  /\ Blocked =>
       \A b \in {Last(blocked)} :
         /\ \A i \in 1..Len(b.states) :
              /\ RandInverse(Rand(b.states[i])) = b.states[i]
              /\ Rand(RandInverse(b.states[i])) = b.states[i]
         /\ \A m \in Models(query) :
              /\ (\E i \in 1..Len(b.states) : m.states[i] = b.states[i])
                   => m = b
              /\ Blocking(m, b) <=> m.states[1] # b.states[1]
         /\ {m \in Models(query) : ~Blocking(m, b)} = {b}

C27_Witness ==
  /\ Blocked
  /\ pc = "loop"
  /\ query = Zeros(4)
  /\ Len(blocked) = 3
  /\ Cardinality({m \in Models(query) : Blocking(m, Last(blocked))}) = 37
  /\ RandInverse(Last(blocked).states[2]) = Last(blocked).states[1]

(***************************************************************************)
(* Bit 31 of the state.                                                    *)
(***************************************************************************)
\* The state with the other value of bit 31.
FlipTop(s) == <<(s[1] + Half \div 2) % Half, s[2]>>

\* C28: the output of a state does not depend on its bit 31, and the
\* transition carries a flip of bit 31 to the next state; so the sequence
\* from state_1 with bit 31 flipped is a model of the same query, with the
\* same outputs and bit 31 flipped in every state, and when the enumeration
\* ends the solutions are pairs of such sequences and their count is even.
C28_PairsByTopBit ==
  /\ Blocked =>
       \A b \in {Last(blocked)} :
         \A twin \in {ModelOf(FlipTop(b.states[1]), Len(query))} :
           /\ twin # b
           /\ twin \in Models(query)
           /\ twin.output_next = b.output_next
           /\ \A i \in 1..Len(b.states) :
                /\ twin.states[i] = FlipTop(b.states[i])
                /\ Output(twin.states[i]) = Output(b.states[i])
                /\ Rand(FlipTop(b.states[i])) = FlipTop(Rand(b.states[i]))
  /\ StoppedUnsat =>
       /\ counter % 2 = 0
       /\ \A i \in 1..Len(blocked) :
            \E j \in 1..Len(blocked) :
              /\ j # i
              /\ blocked[j].states[1] = FlipTop(blocked[i].states[1])
              /\ solution_list[j] = solution_list[i]

C28_Witness ==
  /\ StoppedUnsat
  /\ query = Prefix(5)
  /\ counter = 2
  /\ {blocked[1].states[1], blocked[2].states[1]}
       = {<<4404, 45848>>, FlipTop(<<4404, 45848>>)}

(***************************************************************************)
(* find_seed / find_seed_nextLong on the small bit-vectors of the generic  *)
(* transition model: seed_0 .. seed_n range over all the values of the     *)
(* container, seed_0 is bound to (original_seed ^ multiplier) & mask and   *)
(* the constraints of make_constraints_next are added.  query.state_0      *)
(* holds the value of original_seed.                                       *)
(***************************************************************************)
\* s.add(seeds['seed_0'] == (original_seed ^ multiplier) & mask)
SeedBinding(p, original_seed, seed) ==
  seed = Xor(original_seed, p.multiplier) % Pow2(p.width)

\* The assignments of the seeds and outputs that satisfy the query, for the
\* value of original_seed given.
FindSeedModels(p) ==
  UNION {LcgModels([p EXCEPT !.state_0 = s], p.n) :
           s \in {v \in LcgValues(p) : SeedBinding(p, p.state_0, v)}}

FindSeed ==
  /\ pc = "lcg"
  /\ pc' = "found"
  /\ model' = FindSeedModels(query)
  /\ verdict' = IF model' = {} THEN "unsat" ELSE "sat"
  /\ UNCHANGED <<query, blocked, out, counter, solution_list>>

NextFind == FindSeed

SpecFind == InitLcg /\ [][NextFind]_vars

\* C29: in every satisfying assignment of the query find_seed builds, every
\* seed from seed_0 on is below 2^width (its bits from width up to the top
\* of the container are zero) and every seed after seed_0 is the one before
\* it times the multiplier plus the addend, modulo 2^width.
C29_SeedsMasked ==
  (pc = "found") =>
    /\ verdict = "sat"
    /\ \A m \in model :
         /\ Len(m.states) = query.n + 1
         /\ \A i \in 1..Len(m.states) :
              /\ m.states[i] \in 0..(Pow2(query.width) - 1)
              /\ m.states[i] \div Pow2(query.width) = 0
              /\ i >= 2 =>
                   m.states[i]
                     = (m.states[i - 1] * query.multiplier + query.increment)
                         % Pow2(query.width)

C29_Witness ==
  /\ pc = "found"
  /\ query.n = MaxSteps
  /\ query.width < query.container
  /\ query.state_0 >= Pow2(query.width)
  /\ query.multiplier > 1
  /\ \E m \in model :
       /\ m.states[1] # query.state_0
       /\ m.states[2] # m.states[1]
       /\ (m.states[1] * query.multiplier + query.increment)
            >= Pow2(query.width)

(***************************************************************************)
(* The seed-uniqueness loop on the small bit-vectors of the generic        *)
(* transition model.  The container is MaxWidth bits wide, the addend is   *)
(* the one of java.util.Random cut to the container, and the loop makes    *)
(* one pass more than the container has values above the narrowest mask.   *)
(* The outputs observed are the first two (the only one when there is one  *)
(* transition) of the generator started with original_seed                 *)
(* = query.state_0, a value below the mask since the bits above it do not  *)
(* reach the outputs, and they leave one value to seed_0; blocked holds    *)
(* the values of original_seed excluded so far.                            *)
(***************************************************************************)
Passes(p) == Pow2(p.container - 1) + 1

\* known_ints[0], known_ints[1] of the generator the query is about.
KnownOutputs(p) ==
  LET seed0 == Xor(p.state_0, p.multiplier) % Pow2(p.width)
      run == LcgRun([p EXCEPT !.state_0 = seed0], p.n)
  IN SubSeq(run.outputs, 1, IF p.n < 2 THEN p.n ELSE 2)

\* The assignment of find_seed with the given value of original_seed: the
\* binding gives seed_0, and the constraints of make_constraints_next the
\* other seeds and the outputs.
CountModelOf(p, o) ==
  LET seed0 == Xor(o, p.multiplier) % Pow2(p.width)
      r == LcgRun([p EXCEPT !.state_0 = seed0], p.n)
  IN [original_seed |-> o, states |-> r.states, outputs |-> r.outputs]

\* The satisfying assignments of find_seed with the known outputs bound.
KnownModels(p) ==
  UNION {{m \in {CountModelOf(p, o) : o \in LcgValues(p)} :
            \A k \in 1..Len(known) : m.outputs[k] = known[k]} :
         known \in {KnownOutputs(p)}}

\* The models left when only the last seed found is excluded.
CountModelsLast(all, bl) ==
  {m \in all : Len(bl) > 0 => m.original_seed # bl[Len(bl)]}

\* solver.add(solver.model()[original_seed] != original_seed), for each of bl
CountModels(all, bl) ==
  {m \in all : \A k \in 1..Len(bl) : m.original_seed # bl[k]}

\* check() and model(): one of the models with the Fanout least seeds if it
\* is left, or the one with the least seed that is left.
CountCheck(p, bl) ==
  UNION {UNION {IF rem = {}
                THEN {[verdict |-> "unsat", model |-> NoModel]}
                ELSE {[verdict |-> "sat", model |-> m] :
                        m \in {x \in rem :
                                 \/ Cardinality({o \in all :
                                       o.original_seed < x.original_seed})
                                      < Fanout
                                 \/ \A y \in rem :
                                      x.original_seed <= y.original_seed}} :
                  rem \in {CountModels(all, bl)}} :
         all \in {KnownModels(p)}}

\* The observations leave one value to seed_0.
SeedZeroUnique(all) == Cardinality({m.states[1] : m \in all}) = 1

InitCount ==
  /\ InitLcg
  /\ query.container = MaxWidth
  /\ query.n = MaxSteps
  /\ query.increment = Intercept % Pow2(MaxWidth)
  /\ query.state_0 < Pow2(query.width)
  /\ SeedZeroUnique(KnownModels(query))

CountStart ==
  /\ pc = "lcg"
  /\ pc' = "seeds"
  /\ out' = <<Line("Looking for", Passes(query), <<>>, {})>>
  /\ UNCHANGED <<query, blocked, verdict, model, counter, solution_list>>

\* One pass of `for i in range(n_solutions)`; counter is i.
CountIterate ==
  /\ pc = "seeds"
  /\ \E r \in CountCheck(query, blocked) :
       /\ verdict' = r.verdict
       /\ model' = r.model
       /\ IF r.verdict = "sat"
          THEN /\ solution_list' = Append(solution_list, r.model.original_seed)
               /\ out' = Append(out, Line("Found solution #", counter + 1,
                                          <<r.model.original_seed>>, {}))
               /\ blocked' = Append(blocked, r.model.original_seed)
          ELSE UNCHANGED <<solution_list, out, blocked>>
  /\ counter' = counter + 1
  /\ pc' = IF counter + 1 < Passes(query) THEN "seeds" ELSE "done"
  /\ UNCHANGED query

NextCount ==
  \/ CountStart
  \/ CountIterate

SpecCount == InitCount /\ [][NextCount]_vars

\* The number of values of the bits of the container above the mask.
FreeValues(p) == Pow2(p.container - p.width)

\* C30: when the observations determine seed_0, the values of original_seed
\* that satisfy the query are as many as the values of the bits above the
\* mask, 2^(container - width), one for each; the loop finds a seed not
\* found before in each of its first 2^(container - width) passes and no
\* seed in any later pass.
C30_SeedCount ==
  (pc \in {"seeds", "done"}) =>
    \A all \in {KnownModels(query)} :
      SeedZeroUnique(all) =>
        /\ Cardinality({m.original_seed : m \in all}) = FreeValues(query)
        /\ \A t \in 0..(FreeValues(query) - 1) :
             \E m \in all : m.original_seed \div Pow2(query.width) = t
        /\ Len(solution_list)
             = (IF counter <= FreeValues(query) THEN counter
                ELSE FreeValues(query))
        /\ Cardinality(Range(solution_list)) = Len(solution_list)
        /\ Range(solution_list) \subseteq {m.original_seed : m \in all}
        /\ (counter > FreeValues(query)) => verdict = "unsat"
        /\ (counter \in 1..FreeValues(query)) => verdict = "sat"

C30_Witness ==
  /\ pc = "done"
  /\ SeedZeroUnique(KnownModels(query))
  /\ query.width = MaxWidth - 1
  /\ query.multiplier > 1
  /\ counter = Passes(query)
  /\ Len(solution_list) = 2
  /\ solution_list[1] > solution_list[2]
  /\ verdict = "unsat"
=============================================================================
